---- MODULE Spec2Model ----
(***************************************************************************)
(* A model of scripts/execution_layer.py: cut discovery and version        *)
(* assignment (discover_cuts), template substitution (generate_lib) and    *)
(* the `cut` sub-command (do_cut).                                         *)
(*                                                                         *)
(* Python strings are TLA+ strings; Python integers are arbitrary          *)
(* precision, so an integer is kept as its canonical decimal numeral (the  *)
(* text str() prints): "0", "17", "18446744073709551615".                  *)
(***************************************************************************)
EXTENDS Integers, Sequences, FiniteSets, TLC

VARIABLES
    dir,        \* stems of the regular files in sui-execution/src
    ctime,      \* creation (first commit) timestamp of every feature module of dir
    cuts,       \* outcome of the last discover_cuts() run
    template,   \* lines of sui-execution/src/lib.template.rs
    libRs,      \* content of sui-execution/src/lib.rs
    pcLib,      \* position inside generate_lib
    libVal,     \* generate_lib: the template text read, the exception raised
    libBefore,  \* content of lib.rs when generate_lib was entered
    feature,    \* args.feature
    dryRun,     \* args.dry_run
    pcCut,      \* position inside do_cut
    returncode, \* result.returncode of the cargo cut command
    log,        \* external commands and helper steps executed, in order
    written,    \* files created, modified or deleted by this run
    exitStatus  \* exit status of the process, -1 while it runs

vars == <<dir, ctime, cuts, template, libRs, pcLib, libVal, libBefore,
          feature, dryRun, pcCut, returncode, log, written, exitStatus>>

discoverVars == <<dir, ctime, cuts>>
libVars == <<template, libRs, pcLib, libVal, libBefore>>
cutVars == <<feature, dryRun, pcCut, returncode, log, written, exitStatus>>

(***************************************************************************)
(* Strings.                                                                *)
(***************************************************************************)

\* The characters that occur in the modelled names, in code point order.
Alphabet == ".0123456789ABCDEFGHIJKLMNOPQRSTUVWXYZ_abcdefghijklmnopqrstuvwxyz"

Digits == "0123456789"

Lower == "abcdefghijklmnopqrstuvwxyz"

Upper == "ABCDEFGHIJKLMNOPQRSTUVWXYZ"

Char(s, i) == SubSeq(s, i, i)

Chars(s) == {Char(s, i) : i \in 1..Len(s)}

IndexIn(s, c) == CHOOSE i \in 1..Len(s) : Char(s, i) = c

Ord(c) == IndexIn(Alphabet, c)

DigitChars == Chars(Digits)

LowerChars == Chars(Lower)

UpperChars == Chars(Upper)

IsDigit(c) == c \in DigitChars

StartsWith(s, p) == Len(s) >= Len(p) /\ SubSeq(s, 1, Len(p)) = p

Drop(s, n) == SubSeq(s, n + 1, Len(s))

\* Python's str.__lt__: lexicographic by code point, a proper prefix first.
RECURSIVE StrLess(_, _)
StrLess(a, b) ==
    IF Len(b) = 0 THEN FALSE
    ELSE IF Len(a) = 0 THEN TRUE
    ELSE IF Char(a, 1) = Char(b, 1) THEN StrLess(Drop(a, 1), Drop(b, 1))
    ELSE Ord(Char(a, 1)) < Ord(Char(b, 1))

\* str.upper() on the modelled alphabet.
UpperChar(c) == IF c \in LowerChars THEN Char(Upper, IndexIn(Lower, c)) ELSE c

RECURSIVE StrUpper(_)
StrUpper(s) == IF Len(s) = 0 THEN "" ELSE UpperChar(Char(s, 1)) \o StrUpper(Drop(s, 1))

(***************************************************************************)
(* Python integers as canonical decimal numerals.                          *)
(***************************************************************************)

ValueError == "ValueError"

RECURSIVE StripZeros(_)
StripZeros(s) ==
    IF Len(s) > 1 /\ Char(s, 1) = "0" THEN StripZeros(Drop(s, 1)) ELSE s

RECURSIVE StripUnderscores(_)
StripUnderscores(s) ==
    IF Len(s) = 0 THEN ""
    ELSE IF Char(s, 1) = "_" THEN StripUnderscores(Drop(s, 1))
    ELSE Char(s, 1) \o StripUnderscores(Drop(s, 1))

\* The literals int() accepts over the modelled alphabet: digits, with single
\* underscores allowed between digits.
IsIntLiteral(s) ==
    /\ Len(s) > 0
    /\ \A i \in 1..Len(s) : IsDigit(Char(s, i)) \/ Char(s, i) = "_"
    /\ IsDigit(Char(s, 1)) /\ IsDigit(Char(s, Len(s)))
    /\ \A i \in 1..(Len(s) - 1) : ~(Char(s, i) = "_" /\ Char(s, i + 1) = "_")

\* int(s): the value, or ValueError.
int(s) == IF IsIntLiteral(s) THEN StripZeros(StripUnderscores(s)) ELSE ValueError

\* a < b on values.
RECURSIVE DigitsLess(_, _)
DigitsLess(a, b) ==
    IF Len(a) = 0 THEN FALSE
    ELSE IF Char(a, 1) = Char(b, 1) THEN DigitsLess(Drop(a, 1), Drop(b, 1))
    ELSE IndexIn(Digits, Char(a, 1)) < IndexIn(Digits, Char(b, 1))

IntLess(a, b) == Len(a) < Len(b) \/ (Len(a) = Len(b) /\ DigitsLess(a, b))

\* a + 1 on values.
RECURSIVE IntSucc(_)
IntSucc(a) ==
    IF Len(a) = 0 THEN "1"
    ELSE IF Char(a, Len(a)) = "9" THEN IntSucc(SubSeq(a, 1, Len(a) - 1)) \o "0"
    ELSE SubSeq(a, 1, Len(a) - 1) \o Char(Digits, IndexIn(Digits, Char(a, Len(a))) + 1)

\* a - 1 on values, for a > 0.
RECURSIVE IntPredRaw(_)
IntPredRaw(a) ==
    IF Char(a, Len(a)) = "0" THEN IntPredRaw(SubSeq(a, 1, Len(a) - 1)) \o "9"
    ELSE SubSeq(a, 1, Len(a) - 1) \o Char(Digits, IndexIn(Digits, Char(a, Len(a))) - 1)

IntPred(a) == StripZeros(IntPredRaw(a))

\* The value of a small natural number, and str() of it.
RECURSIVE NatStr(_)
NatStr(n) ==
    IF n < 10 THEN Char(Digits, n + 1) ELSE NatStr(n \div 10) \o Char(Digits, (n % 10) + 1)

RECURSIVE IntMinus(_, _)
IntMinus(a, n) == IF n = 0 THEN a ELSE IntMinus(IntPred(a), n - 1)

\* max() of a non-empty set of values.
IntMax(S) == CHOOSE m \in S : \A x \in S : ~IntLess(m, x)

(***************************************************************************)
(* discover_cuts.                                                          *)
(***************************************************************************)

None == "None"

NOT_A_CUT == {"executor", "lib", "lib.template", "tests", "verifier"}

\* re.match(r"latest|v[0-9]+", stem): the pattern is anchored at the start of
\* the stem only.
IsSnapshotName(stem) ==
    \/ StartsWith(stem, "latest")
    \/ (Len(stem) >= 2 /\ Char(stem, 1) = "v" /\ IsDigit(Char(stem, 2)))

\* The loop over src.iterdir(): the two lists, in listing order.
Snapshots(order) ==
    SelectSeq(order, LAMBDA f : f \notin NOT_A_CUT /\ IsSnapshotName(f))

Features(order) ==
    SelectSeq(order, LAMBDA f : f \notin NOT_A_CUT /\ ~IsSnapshotName(f))

inf == "inf"

snapshot_key(stem) == IF stem = "latest" THEN inf ELSE int(Drop(stem, 1))

feature_key(stem) == stem

\* k1 < k2 on snapshot keys (values and float("inf")).
SnapshotKeyLess(k1, k2) == k1 # inf /\ (k2 = inf \/ IntLess(k1, k2))

FeatureKeyLess(k1, k2) == StrLess(k1, k2)

\* list.sort(key=...) is stable: an element goes behind every element already
\* placed whose key is not greater than its own.
RECURSIVE InsertSnapshot(_, _)
InsertSnapshot(sorted, x) ==
    IF Len(sorted) = 0 THEN <<x>>
    ELSE IF SnapshotKeyLess(snapshot_key(x), snapshot_key(Head(sorted)))
         THEN <<x>> \o sorted
         ELSE <<Head(sorted)>> \o InsertSnapshot(Tail(sorted), x)

RECURSIVE SortSnapshots(_, _)
SortSnapshots(sorted, rest) ==
    IF Len(rest) = 0 THEN sorted
    ELSE SortSnapshots(InsertSnapshot(sorted, Head(rest)), Tail(rest))

RECURSIVE InsertFeature(_, _)
InsertFeature(sorted, x) ==
    IF Len(sorted) = 0 THEN <<x>>
    ELSE IF FeatureKeyLess(feature_key(x), feature_key(Head(sorted)))
         THEN <<x>> \o sorted
         ELSE <<Head(sorted)>> \o InsertFeature(Tail(sorted), x)

RECURSIVE SortFeatures(_, _)
SortFeatures(sorted, rest) ==
    IF Len(rest) = 0 THEN sorted
    ELSE SortFeatures(InsertFeature(sorted, Head(rest)), Tail(rest))

\* A registry entry is the 3-tuple (version, constant name or None, module).
Version(c) == c[1]
Const(c) == c[2]
Module(c) == c[3]

Raised(exc) == [exc |-> exc, cuts |-> <<>>]

Returned(registry) == [exc |-> None, cuts |-> registry]

LatestVersionWithoutSucc(registry) ==
    IF Len(registry) = 0 THEN ValueError
    ELSE IntMax({int(Version(registry[i])) : i \in 1..Len(registry)})

\* 1 + max(int(v) for (v, _, _) in cuts); max() of nothing raises ValueError.
LatestVersion(registry) ==
    IF Len(registry) = 0 THEN ValueError
    ELSE IntSucc(IntMax({int(Version(registry[i])) : i \in 1..Len(registry)}))

\* The loop over the sorted snapshots.
RECURSIVE AssignSnapshots(_, _)
AssignSnapshots(registry, snapshots) ==
    IF Len(snapshots) = 0 THEN Returned(registry)
    ELSE LET mod == Head(snapshots) IN
         IF mod # "latest"
         THEN AssignSnapshots(Append(registry, <<Drop(mod, 1), None, mod>>),
                              Tail(snapshots))
         ELSE LET ver == LatestVersion(registry) IN
              IF ver = ValueError THEN Raised(ValueError)
              ELSE AssignSnapshots(Append(registry, <<ver, None, "latest">>),
                                   Tail(snapshots))

FeatureVersionCountingUp(i) == NatStr(i)

\* f"u64::MAX - {i}" if i > 0 else "u64::MAX"
FeatureVersion(i) == IF i > 0 THEN "u64::MAX - " \o NatStr(i) ELSE "u64::MAX"

\* The loop over enumerate(features).
AssignFeatures(registry, features) ==
    registry \o [j \in 1..Len(features) |->
                    <<FeatureVersion(j - 1), StrUpper(features[j]), features[j]>>]

\* discover_cuts(), with src.iterdir() yielding the files in this order.
discover_cuts(order) ==
    LET snapshots == Snapshots(order)
        features == Features(order)
    IN  IF \E i \in 1..Len(snapshots) : snapshot_key(snapshots[i]) = ValueError
        THEN Raised(ValueError)
        ELSE LET assigned == AssignSnapshots(<<>>, SortSnapshots(<<>>, snapshots)) IN
             IF assigned.exc # None THEN assigned
             ELSE Returned(AssignFeatures(assigned.cuts, SortFeatures(<<>>, features)))

(***************************************************************************)
(* Runs of discover_cuts over a directory.                                 *)
(***************************************************************************)

MaxFiles == 3
MaxTime == 2

\* File stems the directory may hold.
Names ==
    {"latest", "v0", "v1", "v01", "latest2", "v1_beta", "a", "b", "lib",
     "v18446744073709551614"}

\* The orders in which iterdir() may yield the files of S.
Orders(S) ==
    {o \in [1..Cardinality(S) -> S] : \A i, j \in 1..Cardinality(S) : i # j => o[i] # o[j]}

FeatureStems(S) == {f \in S : f \notin NOT_A_CUT /\ ~IsSnapshotName(f)}

NotRun == [exc |-> "NotRun", cuts |-> <<>>]

LibIdle ==
    /\ template = <<>>
    /\ libRs = ""
    /\ pcLib = "idle"
    /\ libVal = [template |-> "", exc |-> None]
    /\ libBefore = ""

CutIdle ==
    /\ feature = ""
    /\ dryRun = FALSE
    /\ pcCut = "idle"
    /\ returncode = 0
    /\ log = <<>>
    /\ written = {}
    /\ exitStatus = -1

InitDiscover ==
    /\ dir \in {S \in SUBSET Names : Cardinality(S) <= MaxFiles}
    /\ ctime \in [FeatureStems(dir) -> 1..MaxTime]
    /\ cuts = NotRun
    /\ LibIdle
    /\ CutIdle

\* One call of discover_cuts(); the directory listing comes in any order.
Discover ==
    /\ \E order \in Orders(dir) : cuts' = discover_cuts(order)
    /\ UNCHANGED <<dir, ctime, libVars, cutVars>>

NextDiscover == Discover

SpecDiscover == InitDiscover /\ [][NextDiscover]_vars

(***************************************************************************)
(* Properties of discover_cuts.                                            *)
(***************************************************************************)

U64MAX == "18446744073709551615"

\* The natural number a short numeral denotes.
RECURSIVE StrNat(_)
StrNat(s) ==
    IF Len(s) = 0 THEN 0
    ELSE 10 * StrNat(SubSeq(s, 1, Len(s) - 1)) + (IndexIn(Digits, Char(s, Len(s))) - 1)

\* The number a version token of the registry denotes in the generated Rust.
VersionValue(v) ==
    IF v = "u64::MAX" THEN U64MAX
    ELSE IF StartsWith(v, "u64::MAX - ") THEN IntMinus(U64MAX, StrNat(Drop(v, 11)))
    ELSE int(v)

AllDigits(s) == Len(s) > 0 /\ \A i \in 1..Len(s) : IsDigit(Char(s, i))

\* The snapshot module names of the interface: `latest` or v<digits>.
IsOrdinalName(f) == Len(f) >= 2 /\ Char(f, 1) = "v" /\ AllDigits(Drop(f, 1))

OrdinalModules(S) == {f \in S \ NOT_A_CUT : IsOrdinalName(f)}

\* Every snapshot candidate of the directory is `latest` or v<digits>.
WellNamed(S) ==
    \A f \in S \ NOT_A_CUT : IsSnapshotName(f) => (f = "latest" \/ IsOrdinalName(f))

Ran == cuts.exc # "NotRun"

Registry == cuts.cuts

SnapshotEntries == {i \in 1..Len(Registry) : Const(Registry[i]) = None}

FeatureEntries == {i \in 1..Len(Registry) : Const(Registry[i]) # None}

EntryOf(f) == CHOOSE i \in 1..Len(Registry) : Module(Registry[i]) = f

HasEntry(f) == \E i \in 1..Len(Registry) : Module(Registry[i]) = f

\* C1: whenever the discovered snapshot modules (`latest` and v<digits>
\* names) contain `latest`, discover_cuts completes without error and gives
\* `latest` one more than the largest version of the other snapshot cuts,
\* and 0 when there is no other snapshot cut.
C1_LatestVersion ==
    (Ran /\ "latest" \in dir /\ WellNamed(dir)) =>
        /\ cuts.exc = None
        /\ HasEntry("latest")
        /\ LET others == {int(Drop(f, 1)) : f \in OrdinalModules(dir)}
               expected == IF others = {} THEN "0" ELSE IntSucc(IntMax(others))
           IN  VersionValue(Version(Registry[EntryOf("latest")])) = expected

\* (ctime, name) of g sorts before (ctime, name) of f.
CreatedBefore(g, f) ==
    ctime[g] < ctime[f] \/ (ctime[g] = ctime[f] /\ StrLess(g, f))

\* C2: the feature at 0-based position i of the order (creation timestamp
\* ascending, name ascending) gets the version u64::MAX - i.
C2_FeatureOrderByCreation ==
    (Ran /\ cuts.exc = None) =>
        \A f \in FeatureStems(dir) :
            /\ HasEntry(f)
            /\ LET i == Cardinality({g \in FeatureStems(dir) : CreatedBefore(g, f)})
               IN  VersionValue(Version(Registry[EntryOf(f)])) = IntMinus(U64MAX, i)

SnapshotValues == {VersionValue(Version(Registry[i])) : i \in SnapshotEntries}

\* C3 as stated: the snapshot versions are exactly 0..k, k + 1 being the
\* number of snapshot cuts, and `latest` receives k.
C3_Contiguous ==
    (Ran /\ cuts.exc = None /\ SnapshotEntries # {}) =>
        LET k == Cardinality(SnapshotEntries) - 1 IN
        /\ SnapshotValues = {NatStr(n) : n \in 0..k}
        /\ HasEntry("latest") =>
              VersionValue(Version(Registry[EntryOf("latest")])) = NatStr(k)

\* C3 as amended: in every registry discover_cuts returns, each v<digits>
\* cut has the ordinal of its name as version and `latest`, when present,
\* has one more than the largest of them, above every other snapshot
\* version; the versions are the range 0..k when the ordinals of the names
\* are 0..k-1 without repetition.
C3_SnapshotVersionsFollowNames ==
    (Ran /\ cuts.exc = None) =>
        LET ordinals == {int(Drop(f, 1)) : f \in OrdinalModules(dir)}
            n == Cardinality(OrdinalModules(dir))
        IN
        /\ \A i \in SnapshotEntries :
              Module(Registry[i]) # "latest" =>
                  VersionValue(Version(Registry[i])) = int(Drop(Module(Registry[i]), 1))
        /\ HasEntry("latest") =>
              LET ver == VersionValue(Version(Registry[EntryOf("latest")])) IN
              /\ ver = IntSucc(IntMax(ordinals))
              /\ \A x \in ordinals : IntLess(x, ver)
              /\ ordinals = {NatStr(m) : m \in 0..(n - 1)} =>
                    SnapshotValues = {NatStr(m) : m \in 0..n}

C3_Witness ==
    /\ Ran /\ cuts.exc = None
    /\ {"latest", "v0", "v1"} \subseteq dir
    /\ Len(Registry) >= 3

IsLetter(c) == c \in LowerChars \/ c \in UpperChars

\* "the literal tag or a single letter followed by digits only"
IsSnapshotPattern(f) ==
    f = "latest" \/ (Len(f) >= 2 /\ IsLetter(Char(f, 1)) /\ AllDigits(Drop(f, 1)))

\* `latest` without any v<digits> module beside it (the case of C1).
LatestAlone(S) == "latest" \in S /\ OrdinalModules(S) = {}

\* C4: classification, sort and assignment raise no error for any module
\* name; a stem is a snapshot only if it matches the snapshot pattern, and
\* every other stem not in NOT_A_CUT is a feature.
C4_ClassificationTotal ==
    (Ran /\ ~LatestAlone(dir)) =>
        /\ cuts.exc = None
        /\ \A f \in dir \ NOT_A_CUT :
              /\ HasEntry(f)
              /\ Cardinality({i \in 1..Len(Registry) : Module(Registry[i]) = f}) = 1
              /\ Const(Registry[EntryOf(f)]) = None => IsSnapshotPattern(f)
              /\ ~IsSnapshotPattern(f) => Const(Registry[EntryOf(f)]) # None

NoOverlap ==
    \A i \in SnapshotEntries : \A j \in FeatureEntries :
        VersionValue(Version(Registry[i])) # VersionValue(Version(Registry[j]))

\* C5 as stated: in every returned registry no snapshot version equals the
\* value of a feature version.
C5_NoOverlap == (Ran /\ cuts.exc = None) => NoOverlap

\* Every v<digits> ordinal is below u64::MAX - F, F the number of features.
WithinCapacity ==
    \A f \in OrdinalModules(dir) :
        IntLess(int(Drop(f, 1)), IntMinus(U64MAX, Cardinality(FeatureStems(dir))))

\* C5 as amended: in every returned registry no snapshot version equals the
\* value of a feature version, provided every v<digits> ordinal is below
\* u64::MAX minus the number of feature cuts.
C5_NoOverlapWithinCapacity ==
    (Ran /\ cuts.exc = None /\ WithinCapacity) => NoOverlap

C5_Witness ==
    /\ Ran /\ cuts.exc = None /\ WithinCapacity
    /\ {"latest", "v1", "a"} \subseteq dir
    /\ SnapshotEntries # {} /\ FeatureEntries # {}

\* C9: over an unchanged set of files every run of discover_cuts yields the
\* identical registry, whatever the order of the directory listing.
C9_SameRegistryEveryRun ==
    [][(Ran /\ dir' = dir) => cuts' = cuts]_vars

(***************************************************************************)
(* generate_lib.                                                           *)
(***************************************************************************)

AssertionError == "AssertionError"

RECURSIVE Join(_, _)
Join(sep, strs) ==
    IF Len(strs) = 0 THEN ""
    ELSE IF Len(strs) = 1 THEN strs[1]
    ELSE strs[1] \o sep \o Join(sep, Tail(strs))

RECURSIVE Concat(_)
Concat(strs) == IF Len(strs) = 0 THEN "" ELSE Head(strs) \o Concat(Tail(strs))

\* \s on the characters of the modelled lines (a line holds no newline).
IsSpace(c) == c = " "

RECURSIVE Indent(_)
Indent(line) ==
    IF Len(line) > 0 /\ IsSpace(Char(line, 1))
    THEN Char(line, 1) \o Indent(Drop(line, 1))
    ELSE ""

IsBlank(line) == Indent(line) = line

\* group(2) of r"^(\s*)// \$([A-Z_]+)$" on a line, or None when the line does
\* not end a match.
DirectiveVar(line) ==
    LET rest == Drop(line, Len(Indent(line))) IN
    IF /\ StartsWith(rest, "// $")
       /\ Len(rest) > 4
       /\ \A i \in 5..Len(rest) : Char(rest, i) \in UpperChars \cup {"_"}
    THEN Drop(rest, 4)
    ELSE None

\* `feature or version`
FeatureOrVersion(c) == IF Const(c) # None /\ Const(c) # "" THEN Const(c) ELSE Version(c)

ExecutorEntry(spc, c) ==
    spc \o FeatureOrVersion(c) \o " => Arc::new(" \o Module(c) \o "::Executor::new(\n"
        \o spc \o "    protocol_config,\n"
        \o spc \o "    paranoid_type_checks,\n"
        \o spc \o "    silent,\n"
        \o spc \o ")?),\n"

VerifierEntry(spc, c) ==
    spc \o FeatureOrVersion(c) \o " => Box::new(" \o Module(c)
        \o "::Verifier::new(protocol_config, is_metered, metrics)),"

SubstituteUnknownVerbatim(spc, var, registry) ==
    [exc |-> None, text |-> spc \o "// $" \o var]

\* raise AssertionError(f"Don't know how to substitute {var}")
SubstituteUnknown(spc, var, registry) == [exc |-> AssertionError, text |-> ""]

\* substitute(m), with spc = m.group(1) and var = m.group(2).
substitute(spc, var, registry) ==
    IF var = "GENERATED_MESSAGE"
    THEN [exc |-> None,
          text |-> spc \o "// DO NOT MODIFY, Generated by ./scripts/execution-layer"]
    ELSE IF var = "MOD_CUTS"
    THEN [exc |-> None,
          text |-> Concat([i \in 1..Len(registry) |->
                              spc \o "mod " \o Module(registry[i]) \o ";"])]
    ELSE IF var = "FEATURE_CONSTS"
    THEN [exc |-> None,
          text |-> Concat([i \in 1..Len(registry) |->
                              IF Const(registry[i]) # None
                              THEN spc \o "pub const " \o Const(registry[i])
                                       \o ": u64 = " \o Version(registry[i]) \o ";"
                              ELSE ""])]
    ELSE IF var = "EXECUTOR_CUTS"
    THEN [exc |-> None,
          text |-> Join("\n", [i \in 1..Len(registry) |-> ExecutorEntry(spc, registry[i])])]
    ELSE IF var = "VERIFIER_CUTS"
    THEN [exc |-> None,
          text |-> Join("\n", [i \in 1..Len(registry) |-> VerifierEntry(spc, registry[i])])]
    ELSE SubstituteUnknown(spc, var, registry)

\* re.sub(pattern, substitute, template, flags=re.MULTILINE) over the lines
\* of the template.  \s* also matches newlines, so a match starts at the
\* first of the blank lines right above a directive line and group(1) holds
\* them; `blanks` are the blank lines seen since the last other line, `out`
\* the pieces of the result so far.  substitute raising ends the call.
RECURSIVE re_sub(_, _, _, _)
re_sub(registry, lines, blanks, out) ==
    IF Len(lines) = 0 THEN [exc |-> None, text |-> Join("\n", out \o blanks)]
    ELSE LET line == Head(lines)
             var == DirectiveVar(line)
         IN  IF var # None
             THEN LET r == substitute(Join("\n", Append(blanks, Indent(line))), var, registry)
                  IN  IF r.exc # None THEN r
                      ELSE re_sub(registry, Tail(lines), <<>>, Append(out, r.text))
             ELSE IF IsBlank(line)
             THEN re_sub(registry, Tail(lines), Append(blanks, line), out)
             ELSE re_sub(registry, Tail(lines), <<>>, (out \o blanks) \o <<line>>)

LibRsPath == "sui-execution/src/lib.rs"

OpenKeeping(content) == content

\* open(path, mode="w") on an existing file: the content is gone.
OpenTruncating(content) == ""

\* cuts = discover_cuts()
GL_DiscoverCuts ==
    /\ pcLib = "discover_cuts"
    /\ \E order \in Orders(dir) : cuts' = discover_cuts(order)
    /\ IF cuts'.exc # None
       THEN /\ pcLib' = "raised"
            /\ libVal' = [libVal EXCEPT !.exc = cuts'.exc]
       ELSE /\ pcLib' = "read_template"
            /\ UNCHANGED libVal
    /\ UNCHANGED <<dir, ctime, template, libRs, libBefore, cutVars>>

\* template = template_file.read()
GL_ReadTemplate ==
    /\ pcLib = "read_template"
    /\ libVal' = [libVal EXCEPT !.template = Join("\n", template)]
    /\ pcLib' = "open_actual"
    /\ UNCHANGED <<discoverVars, template, libRs, libBefore, cutVars>>

\* with open(actual_path, mode="w") as actual_file:
GL_OpenActual ==
    /\ pcLib = "open_actual"
    /\ libRs' = OpenTruncating(libRs)
    /\ written' = written \cup {LibRsPath}
    /\ pcLib' = "write"
    /\ UNCHANGED <<discoverVars, template, libVal, libBefore,
                   feature, dryRun, pcCut, returncode, log, exitStatus>>

\* actual_file.write(re.sub(...)): the argument is evaluated first, and an
\* exception from it leaves the with block, closing the file.
GL_Write ==
    /\ pcLib = "write"
    /\ LET r == re_sub(cuts.cuts, template, <<>>, <<>>) IN
       IF r.exc # None
       THEN /\ pcLib' = "raised"
            /\ libVal' = [libVal EXCEPT !.exc = r.exc]
            /\ UNCHANGED libRs
       ELSE /\ pcLib' = "done"
            /\ libRs' = libRs \o r.text
            /\ UNCHANGED libVal
    /\ UNCHANGED <<discoverVars, template, libBefore, cutVars>>

\* A call of generate_lib().
GL_Call ==
    /\ pcLib \in {"idle", "done", "raised"}
    /\ pcLib' = "discover_cuts"
    /\ libVal' = [template |-> "", exc |-> None]
    /\ libBefore' = libRs
    /\ cuts' = NotRun
    /\ UNCHANGED <<dir, ctime, template, libRs, cutVars>>

MaxLines == 2

TemplateLines ==
    {"// $GENERATED_MESSAGE", "  // $MOD_CUTS", "// $FEATURE_CONSTS",
     "    // $EXECUTOR_CUTS", "// $VERIFIER_CUTS", "// $BOGUS", "// $MOD_CUTS2",
     "use std::sync::Arc;", ""}

Templates(n) == UNION {[1..k -> TemplateLines] : k \in 0..n}

LibDirs == {{}, {"latest", "v0", "b", "a"}, {"v1", "v01", "lib"}, {"latest2", "a"}}

PriorLib == "// DO NOT MODIFY, Generated by ./scripts/execution-layer\nmod v0;"

InitLib ==
    /\ dir \in LibDirs
    /\ ctime = [f \in FeatureStems(dir) |-> 1]
    /\ cuts = NotRun
    /\ template \in Templates(MaxLines)
    /\ libRs = PriorLib
    /\ pcLib = "idle"
    /\ libVal = [template |-> "", exc |-> None]
    /\ libBefore = PriorLib
    /\ CutIdle

NextLib ==
    \/ GL_Call
    \/ GL_DiscoverCuts
    \/ GL_ReadTemplate
    \/ GL_OpenActual
    \/ GL_Write

SpecLib == InitLib /\ [][NextLib]_vars

(***************************************************************************)
(* Properties of generate_lib.                                             *)
(***************************************************************************)

KnownDirectives ==
    {"GENERATED_MESSAGE", "MOD_CUTS", "FEATURE_CONSTS", "EXECUTOR_CUTS", "VERIFIER_CUTS"}

IsIdentChar(c) == IsLetter(c) \/ IsDigit(c) \/ c = "_"

\* The identifier of a line made of leading whitespace and the marker
\* `// $<identifier>`, or None for any other line.
MarkerIdent(line) ==
    LET rest == Drop(line, Len(Indent(line))) IN
    IF /\ StartsWith(rest, "// $")
       /\ Len(rest) > 4
       /\ \A i \in 5..Len(rest) : IsIdentChar(Char(rest, i))
    THEN Drop(rest, 4)
    ELSE None

UnknownMarkers(t) ==
    {i \in 1..Len(t) : MarkerIdent(t[i]) # None /\ MarkerIdent(t[i]) \notin KnownDirectives}

IsUpperIdent(id) == \A i \in 1..Len(id) : Char(id, i) \in UpperChars \/ Char(id, i) = "_"

\* C8 as stated: a template with a marker line whose identifier is not one of
\* the five known directives never yields a generated lib.rs.
C8_UnknownDirectiveFails ==
    UnknownMarkers(template) # {} => pcLib # "done"

\* C8 as amended: a template with a marker line whose identifier consists of
\* uppercase letters and underscores and is not one of the five known
\* directives makes generate_lib fail, with AssertionError once substitution
\* is reached; a marker whose identifier holds a digit or a lowercase letter
\* is not a directive line and is copied unchanged.
C8_UnknownUppercaseDirectiveFails ==
    (\E i \in UnknownMarkers(template) : IsUpperIdent(MarkerIdent(template[i]))) =>
        /\ pcLib # "done"
        /\ (pcLib = "raised" /\ cuts.exc = None) => libVal.exc = AssertionError

C8_Witness ==
    /\ \E i \in UnknownMarkers(template) : IsUpperIdent(MarkerIdent(template[i]))
    /\ pcLib = "raised"
    /\ libVal.exc = AssertionError

\* C10 as stated: after generate_lib failed on an unknown directive, lib.rs
\* still holds the content it had before the run.
C10_PriorContentKept ==
    (pcLib = "raised" /\ libVal.exc = AssertionError) => libRs = libBefore

\* C10 as amended: after generate_lib failed on an unknown directive, lib.rs
\* is empty (truncated, its prior content lost); it is never partially
\* written: content other than the prior one or none is there only after a
\* run whose substitution succeeded.
C10_TruncatedNeverPartial ==
    /\ (pcLib = "raised" /\ libVal.exc = AssertionError) => libRs = ""
    /\ (libRs # libBefore /\ libRs # "") => pcLib = "done"

C10_Witness ==
    /\ pcLib = "raised"
    /\ libVal.exc = AssertionError
    /\ libBefore = PriorLib
    /\ libRs = ""

(***************************************************************************)
(* The `cut` sub-command: parse_args, repo_root and do_cut.                *)
(***************************************************************************)

Range(q) == {q[i] : i \in 1..Len(q)}

\* feature(f): re.match(r"[a-z][a-zA-Z0-9_]*", f) needs a lowercase first
\* character only.
IsFeatureName(f) == Len(f) > 0 /\ Char(f, 1) \in LowerChars

\* cut_command(f), as one command line.
cut_command(f) ==
    "cargo run --bin cut -- --feature " \o f
        \o " -d sui-execution/latest:sui-execution/" \o f \o ":-latest"
        \o " -d external-crates/move:external-crates/move-execution/" \o f
        \o " -p sui-adapter-latest -p sui-move-natives-latest -p sui-verifier-latest"
        \o " -p move-bytecode-verifier -p move-stdlib -p move-vm-runtime"

ImplModulePath(f) == "sui-execution/src/" \o f \o ".rs"

ImplModuleAbsent(d, f) == FALSE

\* impl_module.is_file()
ImplModuleIsFile(d, f) == f \in d

ExitOne(code) == 1

\* The exit status the operating system reports for exit(code): 8 bits.
ExitStatusOf(code) == code % 256

\* result.returncode: an exit code, or -N when signal N ended the command.
ReturnCodes == {0, 1, 101, 255, -9}

\* An uncaught exception ends the interpreter with status 1.
RaiseInCut ==
    /\ pcCut' = "raised"
    /\ exitStatus' = 1

\* parse_args(): argparse ends the process with status 2 on a bad argument.
ParseArgs ==
    /\ pcCut = "parse_args"
    /\ IF IsFeatureName(feature)
       THEN pcCut' = "repo_root" /\ UNCHANGED exitStatus
       ELSE pcCut' = "exited" /\ exitStatus' = 2
    /\ UNCHANGED <<discoverVars, libVars, feature, dryRun, returncode, log, written>>

\* chdir(repo_root())
RepoRoot ==
    /\ pcCut = "repo_root"
    /\ log' = Append(log, "git rev-parse --show-toplevel")
    /\ pcCut' = "do_cut"
    /\ UNCHANGED <<discoverVars, libVars, feature, dryRun, returncode, written, exitStatus>>

\* do_cut with --dry-run: the cut command is run with --dry-run appended and
\* its output printed.
DoCutDryRun ==
    /\ pcCut = "do_cut"
    /\ dryRun
    /\ log' = Append(log, cut_command(feature) \o " --dry-run")
    /\ pcCut' = "returned"
    /\ exitStatus' = 0
    /\ UNCHANGED <<discoverVars, libVars, feature, dryRun, returncode, written>>

\* if impl_module.is_file(): raise RuntimeError(...)
DoCutCheckImpl ==
    /\ pcCut = "do_cut"
    /\ ~dryRun
    /\ IF ImplModuleIsFile(dir, feature)
       THEN RaiseInCut
       ELSE pcCut' = "cut" /\ UNCHANGED exitStatus
    /\ UNCHANGED <<discoverVars, libVars, feature, dryRun, returncode, log, written>>

\* result = subprocess.run(cmd, ...): the command copies the crates, wholly
\* or in part, and ends with any return code.
RunCutCommand ==
    /\ pcCut = "cut"
    /\ \E rc \in ReturnCodes : returncode' = rc
    /\ log' = Append(log, cut_command(feature))
    /\ written' = written \cup {"sui-execution/" \o feature,
                                "external-crates/move-execution/" \o feature}
    /\ pcCut' = "cut_returned"
    /\ UNCHANGED <<discoverVars, libVars, feature, dryRun, exitStatus>>

\* if result.returncode != 0: exit(result.returncode)
CutFailed ==
    /\ pcCut = "cut_returned"
    /\ returncode # 0
    /\ exitStatus' = ExitStatusOf(returncode)
    /\ pcCut' = "exited"
    /\ UNCHANGED <<discoverVars, libVars, feature, dryRun, returncode, log, written>>

CleanUpCut ==
    /\ pcCut = "cut_returned"
    /\ returncode = 0
    /\ log' = Append(log, "clean_up_cut")
    /\ written' = written \cup {"external-crates/move-execution/" \o feature}
    /\ pcCut' = "update_toml"
    /\ UNCHANGED <<discoverVars, libVars, feature, dryRun, returncode, exitStatus>>

UpdateToml ==
    /\ pcCut = "update_toml"
    /\ log' = Append(log, "update_toml")
    /\ written' = written \cup {"sui-execution/Cargo.toml"}
    /\ pcCut' = "generate_impls"
    /\ UNCHANGED <<discoverVars, libVars, feature, dryRun, returncode, exitStatus>>

\* generate_impls: open(orig) raises when latest.rs is missing; otherwise the
\* impl module of the feature is written, a file newer than all others.
GenerateImpls ==
    /\ pcCut = "generate_impls"
    /\ log' = Append(log, "generate_impls")
    /\ IF "latest" \notin dir
       THEN RaiseInCut /\ UNCHANGED <<dir, ctime, written>>
       ELSE /\ dir' = dir \cup {feature}
            /\ ctime' = [f \in FeatureStems(dir') |->
                            IF f \in DOMAIN ctime THEN ctime[f] ELSE MaxTime + 1]
            /\ written' = written \cup {ImplModulePath(feature)}
            /\ pcCut' = "generate_lib"
            /\ UNCHANGED exitStatus
    /\ UNCHANGED <<cuts, libVars, feature, dryRun, returncode>>

\* generate_lib() is entered ...
GenerateLib ==
    /\ pcCut = "generate_lib"
    /\ log' = Append(log, "generate_lib")
    /\ pcLib' = "discover_cuts"
    /\ libVal' = [template |-> "", exc |-> None]
    /\ libBefore' = libRs
    /\ pcCut' = "in_generate_lib"
    /\ UNCHANGED <<discoverVars, template, libRs, feature, dryRun, returncode,
                   written, exitStatus>>

\* ... and returns, or raises.
GenerateLibEnds ==
    /\ pcCut = "in_generate_lib"
    /\ \/ pcLib = "done" /\ pcCut' = "hakari" /\ UNCHANGED exitStatus
       \/ pcLib = "raised" /\ RaiseInCut
    /\ UNCHANGED <<discoverVars, libVars, feature, dryRun, returncode, log, written>>

\* run(["cargo", "hakari", "generate"])
Hakari ==
    /\ pcCut = "hakari"
    /\ log' = Append(log, "cargo hakari generate")
    /\ pcCut' = "returned"
    /\ exitStatus' = 0
    /\ UNCHANGED <<discoverVars, libVars, feature, dryRun, returncode, written>>

FeatureArgs == {"a", "b", "v1", "Xy"}

CutDirs == {{"latest", "v0"}, {"latest", "v0", "a"}, {"v0", "a", "lib"}, {"latest", "b"}}

CutTemplates ==
    {<<"// $GENERATED_MESSAGE", "", "// $MOD_CUTS", "    // $EXECUTOR_CUTS">>,
     <<"// $FEATURE_CONSTS", "// $BOGUS">>}

InitCut ==
    /\ dir \in CutDirs
    /\ ctime \in [FeatureStems(dir) -> 1..MaxTime]
    /\ cuts = NotRun
    /\ template \in CutTemplates
    /\ libRs = PriorLib
    /\ pcLib = "idle"
    /\ libVal = [template |-> "", exc |-> None]
    /\ libBefore = PriorLib
    /\ feature \in FeatureArgs
    /\ dryRun \in BOOLEAN
    /\ pcCut = "parse_args"
    /\ returncode = 0
    /\ log = <<>>
    /\ written = {}
    /\ exitStatus = -1

NextCut ==
    \/ ParseArgs
    \/ RepoRoot
    \/ DoCutDryRun
    \/ DoCutCheckImpl
    \/ RunCutCommand
    \/ CutFailed
    \/ CleanUpCut
    \/ UpdateToml
    \/ GenerateImpls
    \/ GenerateLib
    \/ GL_DiscoverCuts
    \/ GL_ReadTemplate
    \/ GL_OpenActual
    \/ GL_Write
    \/ GenerateLibEnds
    \/ Hakari

SpecCut == InitCut /\ [][NextCut]_vars

(***************************************************************************)
(* Properties of do_cut.                                                   *)
(***************************************************************************)

Ended == pcCut \in {"returned", "raised", "exited"}

\* The impl module of the feature was there when do_cut was entered: only
\* generate_impls creates it.
ImplExistedAtStart ==
    /\ IsFeatureName(feature)
    /\ feature \in dir
    /\ "generate_impls" \notin Range(log)

CargoInvoked == \E i \in 1..Len(log) : StartsWith(log[i], "cargo ")

FailedBeforeAnyEffect ==
    /\ ~CargoInvoked
    /\ written = {}
    /\ Ended => (pcCut = "raised" /\ exitStatus = 1)

\* C6 as stated: in any mode, dry run included, when the impl module of the
\* feature already exists do_cut fails before any cargo command is invoked
\* and before any file is modified.
C6_ExistingImplFailsFirst ==
    ImplExistedAtStart => FailedBeforeAnyEffect

\* C6 as amended: without --dry-run, when the impl module of the feature
\* already exists do_cut fails before any cargo command is invoked and
\* before any file is modified; with --dry-run the check is not made and the
\* cut command is run with --dry-run.
C6_ExistingImplFailsFirstUnlessDryRun ==
    /\ (ImplExistedAtStart /\ ~dryRun) => FailedBeforeAnyEffect
    /\ (ImplExistedAtStart /\ dryRun /\ Ended) =>
          /\ log[Len(log)] = cut_command(feature) \o " --dry-run"
          /\ written = {}

C6_Witness ==
    /\ ImplExistedAtStart
    /\ ~dryRun
    /\ pcCut = "raised"
    /\ exitStatus = 1

LaterSteps ==
    {"clean_up_cut", "update_toml", "generate_impls", "generate_lib",
     "cargo hakari generate"}

\* C7: once the cut command has ended with a non-zero exit code c, none of
\* clean_up_cut, update_toml, generate_impls, generate_lib and cargo hakari
\* generate is ever executed, lib.rs is not regenerated, and the process
\* ends with exit status c.
C7_CutFailureStopsTheRun ==
    returncode # 0 =>
        /\ Range(log) \cap LaterSteps = {}
        /\ pcLib = "idle" /\ libRs = PriorLib
        /\ pcCut \in {"cut_returned", "exited"}
        /\ (pcCut = "exited" /\ returncode > 0) => exitStatus = returncode

C7_Witness ==
    /\ returncode = 101
    /\ pcCut = "exited"
    /\ exitStatus = 101

====
